---- MODULE Spec2Model ----
(***************************************************************************)
(* The Action framework of convert2rhel (convert2rhel/actions/__init__.py): *)
(* the dependency resolver resolve_action_order, Stage.check_dependencies   *)
(* and Stage.run.                                                           *)
(*                                                                          *)
(* An Action class is an element of Classes.  Its class attributes are the  *)
(* functions id and dependencies.  Ids are strings in the code and are      *)
(* compared with the string order by sorted(); here they are integers and   *)
(* compared with <.  A class need not be loaded: the id of a class that is  *)
(* in no list is an id that names no unit.                                  *)
(***************************************************************************)
EXTENDS Integers, Sequences, FiniteSets, TLC

\* ------------------------------------------------------------------ bounds
NumActions == 3
MaxDeps == 2
MaxRunCalls == 2
MaxInstances == 4
NumIds == 2
MaxInvocations == 4
MaxModules == 2
MaxNames == 2
MaxSetResultCalls == 2

Classes == 1..NumActions
DepIds == Classes

VARIABLES
    id,                            \* Action.id of every class
    dependencies,                  \* Action.dependencies of every class
    potential_actions,             \* argument of the observed resolver call
    previously_resolved_actions,   \* argument of the observed resolver call
    gen,                           \* frame of the generator of that call
    yielded,                       \* what the caller has received from it
    second,                        \* a second call, on a permuted candidate list
    given,                         \* the two lists as they were when the call was made
    stages,                        \* the chain of Stage objects, head first
    frames,                        \* the active calls of Stage.run, outermost first;
                                   \* gen is the call's resolver, advanced to the
                                   \* unit its loop handles next
    instances,                     \* every Action object constructed so far
    pc,                            \* where the caller of the chain stands
    exc,                           \* the exception that left the last call
    result,                        \* the FinishedActions the last run returned
    check_result,                  \* how check_dependencies ended
    run_calls,                     \* calls of run() on the head stage so far
    python,                        \* the interpreter's major version, once it matters
    log,                           \* the records the logger has received
    formatted_results,             \* the dictionary run_actions builds and returns
    failed_actions,                \* what find_failed_actions returned
    snapshot,                      \* an Action object's result after its first invocation
    set_result_call,               \* the last call of set_result from outside a Stage
    modules,                       \* what pkgutil.iter_modules finds at a location
    actions                        \* the list get_actions returned

rvars == <<potential_actions, previously_resolved_actions, gen, yielded, second, given>>
cvars == <<id, dependencies, modules, actions>>
svars == <<stages, frames, instances, pc, exc, result, check_result, run_calls, python>>
dvars == <<log, formatted_results, failed_actions, snapshot, set_result_call>>
vars == <<cvars, rvars, svars, dvars>>

\* ----------------------------------------------------------- sequences
Range(s) == {s[i] : i \in 1..Len(s)}

NoDuplicates(s) == \A i, j \in 1..Len(s) : i # j => s[i] # s[j]

\* All sequences without repetition over the set S, of every length.
RECURSIVE Arrangements(_)
Arrangements(S) ==
    IF S = {} THEN {<<>>}
    ELSE {<<>>} \cup
         UNION {{<<x>> \o t : t \in Arrangements(S \ {x})} : x \in S}

RECURSIVE Permutations_(_)
Permutations_(S) ==
    IF S = {} THEN {<<>>}
    ELSE UNION {{<<x>> \o t : t \in Permutations_(S \ {x})} : x \in S}

\* The elements of S as a descending sequence.
RECURSIVE Descending(_)
Descending(S) ==
    IF S = {} THEN <<>>
    ELSE LET m == CHOOSE x \in S : \A y \in S : y <= x
         IN <<m>> \o Descending(S \ {m})

\* Dependency tuples a class may declare: at most MaxDeps ids, ascending.
DepChoices ==
    {d \in Arrangements(DepIds) :
        /\ Len(d) <= MaxDeps
        /\ \A i \in 1..Len(d) - 1 : d[i] < d[i + 1]}

\* list.remove(x): drop the first element equal to x.
RECURSIVE RemoveFirst(_, _)
RemoveFirst(s, x) ==
    IF s = <<>> THEN <<>>
    ELSE IF Head(s) = x THEN Tail(s)
    ELSE <<Head(s)>> \o RemoveFirst(Tail(s), x)

\* ------------------------------------------------- resolve_action_order
\* sorted(potential_actions, key=lambda action: action.id): a stable sort.
RECURSIVE InsertById(_, _, _)
InsertById(s, a, ident) ==
    IF s = <<>> THEN <<a>>
    ELSE IF ident[a] < ident[Head(s)] THEN <<a>> \o s
    ELSE <<Head(s)>> \o InsertById(Tail(s), a, ident)

RECURSIVE SortedByIdFrom(_, _, _)
SortedByIdFrom(acc, s, ident) ==
    IF s = <<>> THEN acc
    ELSE SortedByIdFrom(InsertById(acc, Head(s), ident), Tail(s), ident)

\* A sort that leaves the list as it was discovered.
Unsorted(s, ident) == s

SortedById(s, ident) == SortedByIdFrom(<<>>, s, ident)

\* all(d in resolved_action_ids for d in action.dependencies)
AnyDepResolved(a, ids, deps) ==
    \E i \in 1..Len(deps[a]) : deps[a][i] \in ids

AllDepsResolved(a, ids, deps) ==
    \A i \in 1..Len(deps[a]) : deps[a][i] \in ids

\* No exception object.
NoError == [type |-> "None", args |-> <<>>, unresolved_actions |-> <<>>,
            resolved_actions |-> <<>>]

\* DependencyError(*args, **kwargs).  Exception.__init__ takes no keyword
\* arguments, so any keyword makes the construction raise TypeError; the
\* two attributes are popped from the keywords, with [] as the default.
DependencyErrorInit(args, kwargs) ==
    IF DOMAIN kwargs # {}
    THEN [type |-> "TypeError", args |-> <<>>, unresolved_actions |-> <<>>,
          resolved_actions |-> <<>>]
    ELSE [type |-> "DependencyError", args |-> args,
          unresolved_actions |->
              IF "unresolved_actions" \in DOMAIN kwargs
              THEN kwargs.unresolved_actions ELSE <<>>,
          resolved_actions |->
              IF "resolved_actions" \in DOMAIN kwargs
              THEN kwargs.resolved_actions ELSE <<>>]

\* "Unresolvable Dependencies in these actions: %s"
\*     % ", ".join(action.id for action in unresolved_actions)
UnresolvableMessage(unresolved, ident) ==
    [text |-> "Unresolvable Dependencies in these actions: %s",
     ids |-> [i \in 1..Len(unresolved) |-> ident[unresolved[i]]]]

\* The frame of a generator that has been created and not yet advanced.
GenInit(potential, previous) ==
    [pc |-> "start",
     potential_actions |-> potential,
     previously_resolved_actions |-> previous,
     previous_number_of_unresolved_actions |-> 0,
     unresolved_actions |-> <<>>,
     resolved_actions |-> <<>>,
     resolved_action_ids |-> {},
     seed |-> <<>>,       \* the list the first for loop iterates
     scan |-> <<>>,       \* unresolved_actions[:], the copy the scan iterates
     idx |-> 1,           \* position of the running for loop
     passes |-> 0,        \* passes of the while loop started so far
     error |-> NoError,   \* the exception the generator raised
     argument |-> potential,  \* the list object the caller passed as candidates
     out |-> 0]           \* the class yielded by the last step, 0 if none

\* A preparation that sorts the previously resolved units in with the rest.
GenStartSortsAll(g, ident, deps) ==
    LET sorted == SortedById(g.potential_actions, ident)
        nodeps == SelectSeq(sorted, LAMBDA a : deps[a] = <<>>)
        resolved == SortedById(g.previously_resolved_actions \o nodeps, ident)
    IN [g EXCEPT
          !.pc = "seed",
          !.potential_actions = sorted,
          !.previous_number_of_unresolved_actions =
              Len(sorted) + Len(g.previously_resolved_actions),
          !.unresolved_actions = SelectSeq(sorted, LAMBDA a : deps[a] # <<>>),
          !.resolved_actions = resolved,
          !.resolved_action_ids = {},
          !.seed = resolved,
          !.idx = 1,
          !.out = 0]

\* A preparation that sorts the caller's list in place
\* (potential_actions.sort(key=...)).
GenStartSortsInPlace(g, ident, deps) ==
    LET sorted == SortedById(g.potential_actions, ident)
        nodeps == SelectSeq(sorted, LAMBDA a : deps[a] = <<>>)
        resolved == g.previously_resolved_actions \o nodeps
    IN [g EXCEPT
          !.pc = "seed",
          !.potential_actions = sorted,
          !.argument = sorted,
          !.previous_number_of_unresolved_actions =
              Len(sorted) + Len(g.previously_resolved_actions),
          !.unresolved_actions = SelectSeq(sorted, LAMBDA a : deps[a] # <<>>),
          !.resolved_actions = resolved,
          !.resolved_action_ids = {},
          !.seed = resolved,
          !.idx = 1,
          !.out = 0]

\* Lines 412-423: everything before the first loop.  sorted() and + build
\* new lists: the objects the caller passed are not written to, and the
\* name previously_resolved_actions stays bound to the caller's object.
GenStart(g, ident, deps) ==
    LET sorted == SortedById(g.potential_actions, ident)
        nodeps == SelectSeq(sorted, LAMBDA a : deps[a] = <<>>)
        resolved == g.previously_resolved_actions \o nodeps
    IN [g EXCEPT
          !.pc = "seed",
          !.potential_actions = sorted,
          !.previous_number_of_unresolved_actions =
              Len(sorted) + Len(g.previously_resolved_actions),
          !.unresolved_actions = SelectSeq(sorted, LAMBDA a : deps[a] # <<>>),
          !.resolved_actions = resolved,
          !.resolved_action_ids = {},
          !.seed = resolved,
          !.idx = 1,
          !.out = 0]

\* Lines 426-430: one iteration of the loop over resolved_actions.
GenSeed(g, ident) ==
    IF g.idx <= Len(g.seed)
    THEN [g EXCEPT
            !.resolved_action_ids = @ \cup {ident[g.seed[g.idx]]},
            !.idx = @ + 1,
            !.out = g.seed[g.idx]]
    ELSE [g EXCEPT !.pc = "while", !.out = 0]

\* A loop exit that reports nothing about what is left unresolved.
GenWhileNoRaise(g, ident) ==
    IF g.previous_number_of_unresolved_actions # Len(g.unresolved_actions)
    THEN [g EXCEPT
            !.pc = "scan",
            !.previous_number_of_unresolved_actions = Len(g.unresolved_actions),
            !.scan = g.unresolved_actions,
            !.idx = 1,
            !.passes = @ + 1,
            !.out = 0]
    ELSE [g EXCEPT !.pc = "done", !.out = 0]

\* A loop that goes on for as long as units are pending.
GenWhileUntilEmpty(g, ident) ==
    IF Len(g.unresolved_actions) # 0
    THEN [g EXCEPT
            !.pc = "scan",
            !.previous_number_of_unresolved_actions = Len(g.unresolved_actions),
            !.scan = g.unresolved_actions,
            !.idx = 1,
            !.passes = @ + 1,
            !.out = 0]
    ELSE [g EXCEPT !.pc = "done", !.out = 0]

\* Lines 432-433 and 441-444: the test of the while loop and what follows it.
GenWhile(g, ident) ==
    IF g.previous_number_of_unresolved_actions # Len(g.unresolved_actions)
    THEN [g EXCEPT
            !.pc = "scan",
            !.previous_number_of_unresolved_actions = Len(g.unresolved_actions),
            !.scan = g.unresolved_actions,
            !.idx = 1,
            !.passes = @ + 1,
            !.out = 0]
    ELSE IF g.previous_number_of_unresolved_actions # 0
    THEN [g EXCEPT
            !.pc = "raised",
            !.out = 0,
            !.error = DependencyErrorInit(
                          <<UnresolvableMessage(g.unresolved_actions, ident)>>, <<>>)]
    ELSE [g EXCEPT !.pc = "done", !.out = 0]

\* A scan that walks the copy of the pending list from its end.
GenScanFromEnd(g, ident, deps) ==
    IF g.idx > Len(g.scan)
    THEN [g EXCEPT !.pc = "while", !.out = 0]
    ELSE LET a == g.scan[Len(g.scan) + 1 - g.idx]
         IN IF AllDepsResolved(a, g.resolved_action_ids, deps)
            THEN [g EXCEPT
                    !.unresolved_actions = RemoveFirst(@, a),
                    !.resolved_action_ids = @ \cup {ident[a]},
                    !.resolved_actions = Append(@, a),
                    !.idx = @ + 1,
                    !.out = a]
            ELSE [g EXCEPT !.idx = @ + 1, !.out = 0]

\* Lines 434-439: one iteration of the scan over the copy of the pending list.
GenScan(g, ident, deps) ==
    IF g.idx > Len(g.scan)
    THEN [g EXCEPT !.pc = "while", !.out = 0]
    ELSE LET a == g.scan[g.idx]
         IN IF AllDepsResolved(a, g.resolved_action_ids, deps)
            THEN [g EXCEPT
                    !.unresolved_actions = RemoveFirst(@, a),
                    !.resolved_action_ids = @ \cup {ident[a]},
                    !.resolved_actions = Append(@, a),
                    !.idx = @ + 1,
                    !.out = a]
            ELSE [g EXCEPT !.idx = @ + 1, !.out = 0]

\* One step of the generator's body.
GenStep(g, ident, deps) ==
    CASE g.pc = "start" -> GenStart(g, ident, deps)
      [] g.pc = "seed" -> GenSeed(g, ident)
      [] g.pc = "while" -> GenWhile(g, ident)
      [] g.pc = "scan" -> GenScan(g, ident, deps)
      [] OTHER -> [g EXCEPT !.out = 0]

GenFinished(g) == g.pc \in {"done", "raised"}

\* next(generator): run the body up to the next yield, or to its end.
RECURSIVE GenNext(_, _, _)
GenNext(g, ident, deps) ==
    LET h == GenStep(g, ident, deps)
    IN IF h.out # 0 \/ GenFinished(h) THEN h ELSE GenNext(h, ident, deps)

\* list(generator): what the caller collects, and whether the generator raised.
RECURSIVE Exhaust(_, _, _, _)
Exhaust(g, acc, ident, deps) ==
    IF GenFinished(g)
    THEN [yielded |-> acc, raised |-> g.pc = "raised", gen |-> g]
    ELSE LET h == GenNext(g, ident, deps)
         IN Exhaust(h, IF h.out # 0 THEN Append(acc, h.out) ELSE acc, ident, deps)

\* --------------------------------------------------------------- Action
\* A scale on which SKIP has been renumbered below WARNING.
StatusCodeRenumbered ==
    [SUCCESS |-> 0, WARNING |-> 300, SKIP |-> 250,
     OVERRIDABLE |-> 600, ERROR |-> 900, FATAL |-> 1200]

STATUS_CODE ==
    [SUCCESS |-> 0, WARNING |-> 300, SKIP |-> 450,
     OVERRIDABLE |-> 600, ERROR |-> 900, FATAL |-> 1200]

\* self.status = None.  Python 2 orders None below every number.
NoneStatus == -1
NoneValue == "None"
NoException == "NoException"

\* Python values that reach the status parameter of set_result.
PyStr(v) == [type |-> "str", str |-> v, int |-> 0]
PyInt(n) == [type |-> "int", str |-> "", int |-> n]
PyNone == [type |-> "NoneType", str |-> "", int |-> 0]

\* key in STATUS_CODE
IsStatusKey(v) == v.type = "str" /\ v.str \in DOMAIN STATUS_CODE

\* Messages, as the format and what is filled into it.
NoMessage == [text |-> NoneValue, deps |-> <<>>, to_be |-> ""]
SkipMessage(failed_deps, to_be) ==
    [text |-> "Skipped because %s %s not successful", deps |-> failed_deps, to_be |-> to_be]
UnhandledMessage ==
    [text |-> "Unhandled exception was caught: %s ... Traceback: %s", deps |-> <<>>, to_be |-> ""]
UnitMessage == [text |-> "message of the unit", deps |-> <<>>, to_be |-> ""]

\* Action.__init__; invoked, fault and run_call record the object's history:
\* how often its entry point was called, whether it raised, and the call of
\* run() on the head stage that constructed it.
ActionInit(c, call) ==
    [cls |-> c, status |-> NoneStatus, message |-> NoMessage, error_id |-> NoneValue,
     has_run |-> FALSE, invoked |-> 0, fault |-> FALSE, run_call |-> call]

\* A set_result whose parameters default to None: a None that is passed
\* cannot be told from a parameter that was left out.
SetResultNoneAsDefault(a, kw) ==
    IF "status" \in DOMAIN kw /\ kw.status.type # "NoneType" /\ ~IsStatusKey(kw.status)
    THEN [action |-> a, exc |-> "KeyError"]
    ELSE [action |->
            [a EXCEPT
               !.status = IF "status" \in DOMAIN kw /\ kw.status.type # "NoneType"
                          THEN STATUS_CODE[kw.status.str] ELSE @,
               !.error_id = IF "error_id" \in DOMAIN kw /\ kw.error_id # NoneValue
                            THEN kw.error_id ELSE @,
               !.message = IF "message" \in DOMAIN kw /\ kw.message # NoMessage
                           THEN kw.message ELSE @],
          exc |-> NoException]

\* Action.set_result; kw holds the keyword arguments that were passed.  A
\* parameter that was not passed is the sentinel _NO_USER_VALUE; the status
\* is looked up before anything is assigned.
SetResult(a, kw) ==
    IF "status" \in DOMAIN kw /\ ~IsStatusKey(kw.status)
    THEN [action |-> a, exc |-> "KeyError"]
    ELSE [action |->
            [a EXCEPT
               !.status = IF "status" \in DOMAIN kw THEN STATUS_CODE[kw.status.str] ELSE @,
               !.error_id = IF "error_id" \in DOMAIN kw THEN kw.error_id ELSE @,
               !.message = IF "message" \in DOMAIN kw THEN kw.message ELSE @],
          exc |-> NoException]

\* No call of set_result has been made: calls counts them, kw holds the
\* keywords of the last one and before the object as it was when it was made.
NoSetResultCall == [calls |-> 0, kw |-> <<>>, before |-> ActionInit(1, 0)]

\* Action.run, the body of the abstract method.
ActionRunBody(a) ==
    IF a.has_run
    THEN [action |-> a, exc |-> "ActionError"]
    ELSE [action |-> [a EXCEPT !.has_run = TRUE], exc |-> NoException]

\* _action_defaults_to_success around it.
ActionRun(a) ==
    LET r == ActionRunBody(a)
    IN IF r.exc # NoException THEN r
       ELSE [r EXCEPT !.action.status =
                        IF @ = NoneStatus THEN STATUS_CODE["SUCCESS"] ELSE @]

\* What the run() of a subclass may do.  "default": call Action.run and
\* return, as the class of the unit tests; "return_unset": return without
\* having set a result, and "ERROR": set_result(status="ERROR", ...) and
\* return, both as Convert2rhelLatest and neither through Action.run;
\* "WARNING" and "SKIP": call Action.run, then set_result with that status,
\* as the note in Action.run describes; "raise": raise an exception.
Outcomes == {"default", "return_unset", "raise", "WARNING", "SKIP", "ERROR"}

EntryPoint(a, outcome) ==
    LET b == [a EXCEPT !.invoked = @ + 1]
    IN CASE outcome = "default" -> ActionRun(b)
         [] outcome = "return_unset" -> [action |-> b, exc |-> NoException]
         [] outcome = "raise" -> [action |-> [b EXCEPT !.fault = TRUE], exc |-> "Exception"]
         [] outcome = "ERROR" ->
              SetResult(b, [status |-> PyStr("ERROR"), error_id |-> "OUT_OF_DATE",
                            message |-> UnitMessage])
         [] OTHER ->
              LET r == ActionRun(b)
              IN IF r.exc # NoException THEN r
                 ELSE SetResult(r.action, [status |-> PyStr(outcome), message |-> UnitMessage])

\* ---------------------------------------------------------------- Stage
EmptyLists == [successes |-> <<>>, failures |-> <<>>, skips |-> <<>>]

\* d == action for a str d and an Action object: neither type defines the
\* comparison, so it is the identity test, and a str is no Action.
StrEqualsAction(d, a) == FALSE

\* d in successes
InList(d, list, insts) == \E i \in 1..Len(list) : StrEqualsAction(d, insts[list[i]])

\* A test that skips nothing.
NoFailedDeps(deps, successes, insts) == <<>>

\* [d for d in action_class.dependencies if d not in successes]
FailedDeps(deps, successes, insts) ==
    SelectSeq(deps, LAMBDA d : ~InList(d, successes, insts))

\* Lines 357-365: the unit is skipped.
SkipAction(a, failed_deps) ==
    SetResult(a, [status |-> PyStr("SKIP"), error_id |-> "SKIP",
                  message |-> SkipMessage(failed_deps,
                                          IF Len(failed_deps) > 1 THEN "were" ELSE "was")])

\* Lines 368-379: the unit is run, behind the except clause.
TryRun(a, outcome) ==
    LET r == EntryPoint(a, outcome)
    IN IF r.exc = NoException THEN r
       ELSE SetResult(r.action,
                      [status |-> PyInt(STATUS_CODE["ERROR"]), error_id |-> "UNEXPECTED_ERROR",
                       message |-> UnhandledMessage])

\* A classification whose two tests overlap at WARNING.
CategorizeOverlapping(lists, a, n, py) ==
    [lists |->
        [lists EXCEPT
           !.successes = IF a.status <= STATUS_CODE["WARNING"] THEN Append(@, n) ELSE @,
           !.failures = IF a.status >= STATUS_CODE["WARNING"] THEN Append(@, n) ELSE @],
     exc |-> NoException]

\* Lines 382-386.  Comparing None with an int raises TypeError on Python 3;
\* on Python 2 None is less than every int.
Categorize(lists, a, n, py) ==
    IF a.status = NoneStatus /\ py = "python3"
    THEN [lists |-> lists, exc |-> "TypeError"]
    ELSE [lists |->
            [lists EXCEPT
               !.successes = IF a.status <= STATUS_CODE["WARNING"] THEN Append(@, n) ELSE @,
               !.failures = IF a.status > STATUS_CODE["WARNING"] THEN Append(@, n) ELSE @],
          exc |-> NoException]

\* Lines 353-386: one iteration of the loop of Stage.run, for the class c that
\* the resolver yielded; n is the place of the new object in instances.
RunIteration(lists, c, n, call, insts, outcome, py) ==
    LET failed_deps == FailedDeps(dependencies[c], lists.successes, insts)
        action == ActionInit(c, call)
    IN IF failed_deps # <<>>
       THEN [lists |-> [lists EXCEPT !.skips = Append(@, n)],
             action |-> SkipAction(action, failed_deps).action,
             exc |-> NoException]
       ELSE LET r == TryRun(action, outcome)
            IN IF r.exc # NoException
               THEN [lists |-> lists, action |-> r.action, exc |-> r.exc]
               ELSE [lists |-> Categorize(lists, r.action, n, py).lists,
                     action |-> r.action,
                     exc |-> Categorize(lists, r.action, n, py).exc]

\* A check that looks at the head stage alone.
CheckThisStageOnly(k, previous_stage_actions) ==
    IF Exhaust(GenInit(stages[k].actions, <<>>), <<>>, id, dependencies).raised
    THEN "DependencyError"
    ELSE "checked"

\* Stage.check_dependencies, of the stage at place k of the chain.
RECURSIVE CheckDependencies(_, _)
CheckDependencies(k, previous_stage_actions) ==
    LET r == Exhaust(GenInit(stages[k].actions, <<>>), <<>>, id, dependencies)
    IN IF r.raised THEN "DependencyError"
       ELSE IF k < Len(stages) THEN CheckDependencies(k + 1, r.yielded)
       ELSE "checked"

\* ------------------------------------------ specification of the chain
\* No location has been searched by a call of get_actions that is observed.
NoDiscovery ==
    /\ modules = <<>>
    /\ actions = <<>>

NoDriver ==
    /\ NoDiscovery
    /\ log = <<>>
    /\ formatted_results = <<>>
    /\ failed_actions = <<>>
    /\ snapshot = <<>>
    /\ set_result_call = NoSetResultCall

NoChain ==
    /\ NoDriver
    /\ stages = <<>>
    /\ frames = <<>>
    /\ instances = <<>>
    /\ pc = "idle"
    /\ exc = NoException
    /\ result = EmptyLists
    /\ check_result = "none"
    /\ run_calls = 0
    /\ python = "unknown"

NoCall == [called |-> FALSE, permuted |-> FALSE, yielded |-> <<>>,
           raised |-> FALSE, passes |-> 0]

NoResolverCall ==
    /\ potential_actions = <<>>
    /\ previously_resolved_actions = <<>>
    /\ gen = GenInit(<<>>, <<>>)
    /\ yielded = <<>>
    /\ second = NoCall
    /\ given = [potential_actions |-> potential_actions,
                previously_resolved_actions |-> previously_resolved_actions]

\* run_actions chains two stages, system_checks and then pre_ponr_changes.
\* Stage.__init__ of both: classes 1..s are found in the package of the
\* first stage, s+1..t in that of the second, the others nowhere.
Init ==
    /\ id = [c \in Classes |-> c]
    /\ \E t \in {NumActions - 1, NumActions} :
       \E s \in 0..t :
       \E f \in [1..t -> DepChoices] :
          /\ stages = <<[actions |-> Descending(1..s), has_run |-> FALSE],
                        [actions |-> Descending((s + 1)..t), has_run |-> FALSE]>>
          /\ dependencies = [c \in Classes |-> IF c <= t THEN f[c] ELSE <<>>]
    /\ frames = <<>>
    /\ instances = <<>>
    /\ pc = "idle"
    /\ exc = NoException
    /\ result = EmptyLists
    /\ check_result = "none"
    /\ run_calls = 0
    /\ python = "unknown"
    /\ NoResolverCall
    /\ NoDriver

Top == frames[Len(frames)]
TopLists == [successes |-> Top.successes, failures |-> Top.failures, skips |-> Top.skips]

\* A Stage.run that appends to the lists it was given.
StoreInGivenLists(fs, lists, g) ==
    [k \in 1..Len(fs) |->
        [fs[k] EXCEPT !.successes = lists.successes, !.failures = lists.failures,
                      !.skips = lists.skips, !.gen = IF k = Len(fs) THEN g ELSE @]]

\* The appends of the loop go to the lists of the innermost Stage.run,
\* which are the copies it made on entry (lines 335-349); no other call's
\* lists are these objects.
Store(fs, lists, g) ==
    [fs EXCEPT ![Len(fs)] =
        [@ EXCEPT !.successes = lists.successes, !.failures = lists.failures,
                  !.skips = lists.skips, !.gen = g]]

\* Lines 330-351: Stage.run of stage k is entered with the callers' lists;
\* given keeps the arguments as they were received.
Enter(fs, k, lists) ==
    IF stages[k].has_run
    THEN /\ pc' = "raised"
         /\ exc' = "ActionError"
         /\ frames' = <<>>
    ELSE /\ pc' = "running"
         /\ exc' = NoException
         /\ frames' = Append(fs,
                [stage |-> k, given |-> lists,
                 successes |-> lists.successes, failures |-> lists.failures,
                 skips |-> lists.skips,
                 gen |-> GenNext(GenInit(stages[k].actions, <<>>), id, dependencies)])

\* A caller calls check_dependencies() on the head stage; a DependencyError
\* leaves the call.
CallCheckDependencies ==
    /\ pc = "idle"
    /\ \E check \in {CheckDependencies(1, <<>>)} :
          /\ check_result' = check
          /\ pc' = IF check = "DependencyError" THEN "raised" ELSE "checked"
          /\ exc' = IF check = "DependencyError" THEN "DependencyError" ELSE exc
    /\ UNCHANGED <<cvars, dvars, rvars, stages, frames, instances, result, run_calls, python>>

\* A caller calls run() on the head stage.
CallRun ==
    /\ pc \in {"idle", "checked", "returned"}
    /\ run_calls < MaxRunCalls
    /\ run_calls' = run_calls + 1
    /\ Enter(frames, 1, EmptyLists)
    /\ UNCHANGED <<cvars, dvars, rvars, stages, instances, result, check_result, python>>

\* The loop of the innermost Stage.run runs or skips the unit it took from
\* the resolver, and takes the next.  The entry point of a skipped unit is
\* not called, so no outcome is chosen for it; the interpreter's version is
\* fixed when a status of None is first compared.
RunUnit ==
    /\ pc = "running"
    /\ Len(instances) < MaxInstances
    /\ Top.gen.out # 0
    /\ \E c \in {Top.gen.out} :
       \E skipped \in {FailedDeps(dependencies[c], Top.successes, instances) # <<>>} :
       \E outcome \in (IF skipped THEN {"default"} ELSE Outcomes) :
       \E py \in (IF python # "unknown" THEN {python}
                  ELSE IF outcome = "return_unset" THEN {"python2", "python3"}
                  ELSE {"unknown"}) :
       \E r \in {RunIteration(TopLists, c, Len(instances) + 1, run_calls,
                              instances, outcome, py)} :
          /\ instances' = Append(instances, r.action)
          /\ python' = py
          /\ IF r.exc = NoException
             THEN /\ frames' = Store(frames, r.lists, GenNext(Top.gen, id, dependencies))
                  /\ UNCHANGED <<pc, exc>>
             ELSE /\ frames' = <<>>
                  /\ pc' = "raised"
                  /\ exc' = r.exc
    /\ UNCHANGED <<cvars, dvars, rvars, stages, result, check_result, run_calls>>

\* A stage that hands over to the next stage while units of its own are
\* still to be processed.
RunNextStageEarly ==
    /\ pc = "running"
    /\ Top.gen.out # 0
    /\ Top.stage < Len(stages)
    /\ Enter(frames, Top.stage + 1, TopLists)
    /\ UNCHANGED <<cvars, dvars, rvars, stages, instances, result, check_result, run_calls, python>>

\* The resolver is exhausted and the stage has a next stage: its run() is
\* called with the lists so far.
RunNextStage ==
    /\ pc = "running"
    /\ Top.gen.pc = "done"
    /\ Top.stage < Len(stages)
    /\ Enter(frames, Top.stage + 1, TopLists)
    /\ UNCHANGED <<cvars, dvars, rvars, stages, instances, result, check_result, run_calls, python>>

\* The resolver is exhausted in the last stage: every Stage.run of the chain
\* returns the FinishedActions of the innermost one.
RunReturn ==
    /\ pc = "running"
    /\ Top.gen.pc = "done"
    /\ Top.stage = Len(stages)
    /\ result' = TopLists
    /\ frames' = <<>>
    /\ pc' = "returned"
    /\ UNCHANGED <<cvars, dvars, rvars, stages, instances, exc, check_result, run_calls, python>>

\* The resolver raises: DependencyError leaves every Stage.run of the chain.
RunDependencyError ==
    /\ pc = "running"
    /\ Top.gen.pc = "raised"
    /\ frames' = <<>>
    /\ pc' = "raised"
    /\ exc' = "DependencyError"
    /\ UNCHANGED <<cvars, dvars, rvars, stages, instances, result, check_result, run_calls, python>>

Next ==
    \/ CallCheckDependencies
    \/ CallRun
    \/ RunUnit
    \/ RunNextStage
    \/ RunReturn
    \/ RunDependencyError

Spec == Init /\ [][Next]_vars

\* ------------------------------------------------------------ run_actions
\* A dict, as the sequence of its items in the order of insertion.
DictKeys(d) == {d[i].key : i \in 1..Len(d)}

\* d.setdefault(key, value)
DictSetDefault(d, key, value) ==
    IF key \in DictKeys(d) THEN d ELSE Append(d, [key |-> key, value |-> value])

\* d[key] = value
DictSet(d, key, value) ==
    IF key \in DictKeys(d)
    THEN [i \in 1..Len(d) |-> IF d[i].key = key THEN [key |-> key, value |-> value] ELSE d[i]]
    ELSE Append(d, [key |-> key, value |-> value])

\* d[key], for a key of d
DictGet(d, key) == d[CHOOSE i \in 1..Len(d) : d[i].key = key].value

DependencyErrorText ==
    "Some dependencies were set on Actions but not present in convert2rhel: %s"

\* logger.critical of convert2rhel: the record is logged and the process
\* exits (SystemExit).
LoggerCritical(text) ==
    [pc |-> "exited", exc |-> "SystemExit",
     log |-> Append(log, [level |-> "CRITICAL", text |-> text])]

\* An except clause that lets the error pass.
ExceptDependencyErrorPass(check) ==
    [pc |-> "checked", exc |-> NoException, log |-> log]

\* Lines 451-456: try: system_checks.check_dependencies()
\* except DependencyError as e: logger.critical(...)
ExceptDependencyError(check) ==
    IF check = "DependencyError"
    THEN LoggerCritical(DependencyErrorText)
    ELSE [pc |-> "checked", exc |-> NoException, log |-> log]

\* run_actions builds the chain and checks the dependencies.
RunActionsCheck ==
    /\ pc = "idle"
    /\ \E check \in {CheckDependencies(1, <<>>)} :
       \E r \in {ExceptDependencyError(check)} :
          /\ check_result' = check
          /\ pc' = r.pc
          /\ exc' = r.exc
          /\ log' = r.log
    /\ UNCHANGED <<cvars, rvars, stages, frames, instances, result, run_calls, python,
                   formatted_results, failed_actions, snapshot, set_result_call>>

\* Line 458: results = system_checks.run()
RunActionsRun ==
    /\ pc = "checked"
    /\ run_calls' = run_calls + 1
    /\ Enter(frames, 1, EmptyLists)
    /\ UNCHANGED <<cvars, rvars, dvars, stages, instances, result, check_result, python>>

\* One record of the dictionary.
ResultRecord(a) == [status |-> a.status, error_id |-> a.error_id, message |-> a.message]

\* for action in itertools.chain(*results): formatted_results[action.id] = ...
RECURSIVE FormatResults(_, _, _, _)
FormatResults(d, chained, insts, ident) ==
    IF chained = <<>> THEN d
    ELSE FormatResults(DictSet(d, ident[insts[Head(chained)].cls],
                               ResultRecord(insts[Head(chained)])),
                       Tail(chained), insts, ident)

\* Lines 464-468: the results are formatted and returned.
RunActionsFormat ==
    /\ pc = "returned"
    /\ formatted_results' =
          FormatResults(<<>>, result.successes \o result.failures \o result.skips,
                        instances, id)
    /\ pc' = "done"
    /\ UNCHANGED <<cvars, rvars, stages, frames, instances, exc, result, check_result,
                   run_calls, python, log, failed_actions, snapshot, set_result_call>>

\* After a successful check no stage's resolver raises in run(), so the
\* step RunDependencyError has no place here.
NextRunActions ==
    \/ RunActionsCheck
    \/ RunActionsRun
    \/ RunUnit
    \/ RunNextStage
    \/ RunReturn
    \/ RunActionsFormat

SpecRunActions == Init /\ [][NextRunActions]_vars

\* -------------------------------------------- units that share an id
\* Nothing in Stage.__init__ or get_actions looks at the ids: the classes
\* found may carry any ids, also equal ones.  Every class declares at most
\* one dependency here.
InitDuplicateIds ==
    /\ \E ident \in [Classes -> 1..NumIds] : id = ident
    /\ \E t \in {NumActions - 1, NumActions} :
       \E s \in 0..t :
       \E f \in [1..t -> {d \in DepChoices : Len(d) <= 1}] :
          /\ stages = <<[actions |-> Descending(1..s), has_run |-> FALSE],
                        [actions |-> Descending((s + 1)..t), has_run |-> FALSE]>>
          /\ dependencies = [c \in Classes |-> IF c <= t THEN f[c] ELSE <<>>]
    /\ frames = <<>>
    /\ instances = <<>>
    /\ pc = "idle"
    /\ exc = NoException
    /\ result = EmptyLists
    /\ check_result = "none"
    /\ run_calls = 0
    /\ python = "unknown"
    /\ NoResolverCall
    /\ NoDriver

SpecDuplicateIds == InitDuplicateIds /\ [][NextRunActions]_vars

\* ------------------------------------------------------------ get_actions
\* The objects a module's names may be bound to: the class Action itself,
\* the subclasses of Action (the elements of Classes), a class that is no
\* Action, and an object that is no class.
ActionBase == 0
OtherClass == -1
NoClass == -2
Objects == Classes \cup {ActionBase, OtherClass, NoClass}

\* isinstance(obj, type)
IsInstanceOfType(obj) == obj # NoClass

\* issubclass(obj, Action), for a class obj
IsSubclassOfAction(obj) == obj \in Classes \cup {ActionBase}

\* Sequences over S of length at most n.
RECURSIVE SeqsUpTo(_, _)
SeqsUpTo(S, n) ==
    IF n = 0 THEN {<<>>}
    ELSE LET shorter == SeqsUpTo(S, n - 1)
         IN shorter \cup {Append(t, x) : t \in {u \in shorter : Len(u) = n - 1}, x \in S}

\* A module, or a package, as iter_modules reports it: objects holds
\* getattr(module, name) for the names of dir(module), in their order.
\* Several names of one module may be bound to one object, and one object
\* may be bound in several modules.
ModuleChoices ==
    {[ispkg |-> p, objects |-> o] : p \in BOOLEAN, o \in SeqsUpTo(Objects, MaxNames)}

\* Lines 280-283: the generator action_classes over the objects of a module.
ActionClasses(objects) ==
    SelectSeq(objects,
              LAMBDA obj : IsInstanceOfType(obj) /\ IsSubclassOfAction(obj)
                           /\ obj # ActionBase)

\* Lines 272-285: packages are left out, the modules are imported, and the
\* Action classes of each are appended to the list.
RECURSIVE GetActions(_)
GetActions(mods) ==
    IF mods = <<>> THEN <<>>
    ELSE (IF Head(mods).ispkg THEN <<>> ELSE ActionClasses(Head(mods).objects))
         \o GetActions(Tail(mods))

InitGetActions ==
    /\ id = [c \in Classes |-> c]
    /\ dependencies = [c \in Classes |-> <<>>]
    /\ modules \in SeqsUpTo(ModuleChoices, MaxModules)
    /\ actions = <<>>
    /\ log = <<>>
    /\ formatted_results = <<>>
    /\ failed_actions = <<>>
    /\ snapshot = <<>>
    /\ set_result_call = NoSetResultCall
    /\ stages = <<>>
    /\ frames = <<>>
    /\ instances = <<>>
    /\ pc = "idle"
    /\ exc = NoException
    /\ result = EmptyLists
    /\ check_result = "none"
    /\ run_calls = 0
    /\ python = "unknown"
    /\ NoResolverCall

\* get_actions(actions_path, prefix) is called on the location.
CallGetActions ==
    /\ pc = "idle"
    /\ actions' = GetActions(modules)
    /\ pc' = "loaded"
    /\ UNCHANGED <<id, dependencies, modules, rvars, dvars, stages, frames, instances,
                   exc, result, check_result, run_calls, python>>

NextGetActions == CallGetActions

SpecGetActions == InitGetActions /\ [][NextGetActions]_vars

\* ------------------------------------------ a chain over aliased classes
\* Stage.__init__ of both stages of run_actions: self.actions is what
\* get_actions returns for the package of the stage.  Each package holds one
\* module here, whose names are bound to Action classes; every class
\* declares at most one dependency.
InitAliased ==
    /\ id = [c \in Classes |-> c]
    /\ \E m1, m2 \in {m \in ModuleChoices :
                         ~m.ispkg /\ Range(m.objects) \subseteq Classes \cup {ActionBase}} :
       \E f \in [Range(GetActions(<<m1, m2>>)) -> {d \in DepChoices : Len(d) <= 1}] :
          /\ modules = <<m1, m2>>
          /\ stages = <<[actions |-> GetActions(<<m1>>), has_run |-> FALSE],
                        [actions |-> GetActions(<<m2>>), has_run |-> FALSE]>>
          /\ dependencies = [c \in Classes |-> IF c \in DOMAIN f THEN f[c] ELSE <<>>]
    /\ actions = <<>>
    /\ log = <<>>
    /\ formatted_results = <<>>
    /\ failed_actions = <<>>
    /\ snapshot = <<>>
    /\ set_result_call = NoSetResultCall
    /\ frames = <<>>
    /\ instances = <<>>
    /\ pc = "idle"
    /\ exc = NoException
    /\ result = EmptyLists
    /\ check_result = "none"
    /\ run_calls = 0
    /\ python = "unknown"
    /\ NoResolverCall

SpecAliased == InitAliased /\ [][NextRunActions]_vars

\* ---------------------------------- the results, as the unit tests give them
\* A comparison that takes WARNING for a failure.
FindFailedActionsFromWarning(results) ==
    LET items == SelectSeq(results, LAMBDA a : a.value.status >= STATUS_CODE["WARNING"])
    IN [i \in 1..Len(items) |-> items[i].key]

\* [a[0] for a in results.items() if a[1]["status"] > STATUS_CODE["WARNING"]]
FindFailedActions(results) ==
    LET items == SelectSeq(results, LAMBDA a : a.value.status > STATUS_CODE["WARNING"])
    IN [i \in 1..Len(items) |-> items[i].key]

StatusValues == {STATUS_CODE[name] : name \in DOMAIN STATUS_CODE}

\* test_run_actions: Stage.run is replaced by a FinishedActions of objects
\* made with a given id and status; here the objects 1..k, of the classes
\* 1..k, whose ids may coincide, each in the list its status puts it in (an
\* object with status SKIP in failures or in skips).
InitResults ==
    /\ \E k \in 0..NumActions :
       \E ident \in [1..k -> 1..NumIds] :
       \E st \in [1..k -> StatusValues] :
       \E sk \in SUBSET {i \in 1..k : st[i] = STATUS_CODE["SKIP"]} :
          /\ id = [c \in Classes |-> IF c <= k THEN ident[c] ELSE 1]
          /\ instances = [i \in 1..k |-> [ActionInit(i, 1) EXCEPT !.status = st[i]]]
          /\ result =
               [successes |-> SelectSeq([i \in 1..k |-> i],
                                  LAMBDA i : st[i] <= STATUS_CODE["WARNING"]),
                failures |-> SelectSeq([i \in 1..k |-> i],
                                  LAMBDA i : st[i] > STATUS_CODE["WARNING"] /\ i \notin sk),
                skips |-> SelectSeq([i \in 1..k |-> i], LAMBDA i : i \in sk)]
    /\ dependencies = [c \in Classes |-> <<>>]
    /\ stages = <<>>
    /\ frames = <<>>
    /\ pc = "returned"
    /\ exc = NoException
    /\ check_result = "checked"
    /\ run_calls = 1
    /\ python = "unknown"
    /\ NoResolverCall
    /\ NoDriver

\* The caller of run_actions passes what it returned to find_failed_actions.
CallFindFailedActions ==
    /\ pc = "done"
    /\ failed_actions' = FindFailedActions(formatted_results)
    /\ pc' = "found"
    /\ UNCHANGED <<cvars, rvars, stages, frames, instances, exc, result, check_result,
                   run_calls, python, log, formatted_results, snapshot, set_result_call>>

NextResults == RunActionsFormat \/ CallFindFailedActions

SpecResults == InitResults /\ [][NextResults]_vars

\* ------------------------------------------------------ one Action object
\* action = action_class(), of any class, outside a Stage.
InitAction ==
    /\ id = [c \in Classes |-> c]
    /\ dependencies = [c \in Classes |-> <<>>]
    /\ \E c \in Classes : instances = <<ActionInit(c, 0)>>
    /\ stages = <<>>
    /\ frames = <<>>
    /\ pc = "idle"
    /\ exc = NoException
    /\ result = EmptyLists
    /\ check_result = "none"
    /\ run_calls = 0
    /\ python = "unknown"
    /\ NoResolverCall
    /\ NoDriver

\* The outcomes of a class whose run() goes through Action.run, and of one
\* whose run() does not.
ThroughBaseRun == {"default", "WARNING", "SKIP"}

\* action.run(), on the object that exists; snapshot keeps the result the
\* object had when its first invocation ended.  The object's class is the
\* same at every invocation: its run() goes through Action.run again if it
\* did before.
InvokeEntryPoint ==
    /\ instances[1].invoked < MaxInvocations
    /\ \E outcome \in (IF instances[1].invoked = 0 THEN Outcomes
                       ELSE IF instances[1].has_run THEN ThroughBaseRun
                       ELSE Outcomes \ ThroughBaseRun) :
       \E r \in {EntryPoint(instances[1], outcome)} :
          /\ instances' = <<r.action>>
          /\ exc' = r.exc
          /\ pc' = IF r.exc = NoException THEN "returned" ELSE "raised"
          /\ snapshot' = IF instances[1].invoked = 0
                         THEN <<ResultRecord(r.action)>> ELSE snapshot
    /\ UNCHANGED <<cvars, rvars, stages, frames, result, check_result, run_calls, python,
                   log, formatted_results, failed_actions, set_result_call>>

NextAction == InvokeEntryPoint

SpecAction == InitAction /\ [][NextAction]_vars

\* ------------------------------------------------- calls of set_result
\* What a caller may pass: as status one of the six names, another string,
\* an int (as line 379 does) or None; as error_id a string or None; as
\* message a message or None.
StatusArguments ==
    {PyStr(name) : name \in DOMAIN STATUS_CODE}
        \cup {PyStr("FAILURE"), PyInt(STATUS_CODE["ERROR"]), PyNone}
ErrorIdArguments == {"SOME_ERROR", NoneValue}
MessageArguments == {UnitMessage, NoMessage}

\* The keywords of a call: any of the three parameters, each with a value.
Keywords ==
    {[name \in D |-> all[name]] :
        D \in SUBSET {"status", "error_id", "message"},
        all \in [status : StatusArguments, error_id : ErrorIdArguments,
                  message : MessageArguments]}

\* action.set_result(**kw) on the object that exists.
CallSetResult ==
    /\ set_result_call.calls < MaxSetResultCalls
    /\ \E kw \in Keywords :
       \E r \in {SetResult(instances[1], kw)} :
          /\ instances' = <<r.action>>
          /\ exc' = r.exc
          /\ pc' = IF r.exc = NoException THEN "returned" ELSE "raised"
          /\ set_result_call' = [calls |-> set_result_call.calls + 1, kw |-> kw,
                                 before |-> instances[1]]
    /\ UNCHANGED <<cvars, rvars, stages, frames, result, check_result, run_calls, python,
                   log, formatted_results, failed_actions, snapshot>>

NextSetResult == CallSetResult

SpecSetResult == InitAction /\ [][NextSetResult]_vars

\* ------------------------------------- specification of the resolver

\* The callers' inputs: every class is a candidate, previously resolved, or
\* not loaded at all; the candidates arrive in descending id order.
InitResolve ==
    /\ id = [c \in Classes |-> c]
    /\ \E prev \in Arrangements(Classes) :
       \E cand \in SUBSET (Classes \ Range(prev)) :
       \E f \in [cand -> DepChoices] :
          /\ previously_resolved_actions = prev
          /\ potential_actions = Descending(cand)
          /\ dependencies = [c \in Classes |-> IF c \in cand THEN f[c] ELSE <<>>]
    /\ gen = GenInit(potential_actions, previously_resolved_actions)
    /\ yielded = <<>>
    /\ second = NoCall
    /\ given = [potential_actions |-> potential_actions,
                previously_resolved_actions |-> previously_resolved_actions]
    /\ NoChain

\* The caller asks the generator for its next element.
ResolveNext ==
    /\ ~GenFinished(gen)
    /\ gen' = GenNext(gen, id, dependencies)
    /\ yielded' = IF gen'.out # 0 THEN Append(yielded, gen'.out) ELSE yielded
    /\ potential_actions' = gen'.argument
    /\ previously_resolved_actions' = gen'.previously_resolved_actions
    /\ UNCHANGED <<cvars, dvars, svars, second, given>>

\* The same units, discovered in another order, are resolved again.
ResolveAgain ==
    /\ GenFinished(gen)
    /\ ~second.called
    /\ \E perm \in Permutations_(Range(potential_actions)) :
       \E r \in {Exhaust(GenInit(perm, previously_resolved_actions), <<>>,
                          id, dependencies)} :
            second' = [called |-> TRUE, permuted |-> perm # potential_actions,
                       yielded |-> r.yielded, raised |-> r.raised,
                       passes |-> r.gen.passes]
    /\ UNCHANGED <<cvars, dvars, svars, potential_actions, previously_resolved_actions, gen, yielded,
                   given>>

NextResolve == ResolveNext \/ ResolveAgain

SpecResolve == InitResolve /\ [][NextResolve]_vars

\* ------------------------------ the resolver, one statement at a time
\* The caller exhausts the generator (list(...), or the for loop of
\* Stage.run); the body advances by one step: the preparation, one
\* iteration of a for loop, or one test of the while loop.
ResolveStep ==
    /\ ~GenFinished(gen)
    /\ gen' = GenStep(gen, id, dependencies)
    /\ yielded' = IF gen'.out # 0 THEN Append(yielded, gen'.out) ELSE yielded
    /\ potential_actions' = gen'.argument
    /\ previously_resolved_actions' = gen'.previously_resolved_actions
    /\ UNCHANGED <<cvars, dvars, svars, second, given>>

NextResolveSteps == ResolveStep

\* The caller keeps asking, so the body keeps advancing until it ends.
SpecResolveSteps == InitResolve /\ [][NextResolveSteps]_vars /\ WF_vars(ResolveStep)

\* ------------------------------------------- properties of the resolver
IdsOf(s) == {id[s[i]] : i \in 1..Len(s)}

Candidates == Range(potential_actions)
Previous == Range(previously_resolved_actions)

\* Every dependency id of a candidate is the id of a candidate or of a
\* previously resolved unit.
DepsClosed ==
    \A c \in Candidates : \A i \in 1..Len(dependencies[c]) :
        dependencies[c][i] \in IdsOf(potential_actions) \cup IdsOf(previously_resolved_actions)

\* a depends directly on b, both candidates.
DependsOn(a, b) == \E i \in 1..Len(dependencies[a]) : dependencies[a][i] = id[b]

\* A finite graph has a cycle exactly when some non-empty set of its nodes
\* has, for each of its nodes, an edge to a node of the set.
HasCycleIn(units) ==
    \E S \in SUBSET units :
        /\ S # {}
        /\ \A a \in S : \E b \in S : DependsOn(a, b)

HasCycle == HasCycleIn(Candidates)

Occurrences(s, x) == Cardinality({p \in 1..Len(s) : s[p] = x})

\* Every unit of out stands after the units its dependencies name.
AfterDependencies(out) ==
    \A p \in 1..Len(out) : \A i \in 1..Len(dependencies[out[p]]) :
        \E q \in 1..(p - 1) : id[out[q]] = dependencies[out[p]][i]

EveryUnitOnceInOrder(out, raised) ==
    /\ ~raised
    /\ Range(out) = Candidates \cup Previous
    /\ \A c \in Candidates \cup Previous : Occurrences(out, c) = 1
    /\ AfterDependencies(out)

\* C1: with acyclic dependencies that all name loaded units, exhausting the
\* resolver yields every unit exactly once, each after all the units its
\* dependencies name, and raises nothing.
C1_EveryUnitOnceAfterItsDependencies ==
    (DepsClosed /\ ~HasCycle) =>
        /\ GenFinished(gen) => EveryUnitOnceInOrder(yielded, gen.pc = "raised")
        /\ second.called => EveryUnitOnceInOrder(second.yielded, second.raised)

C1_Witness ==
    /\ gen.pc = "done"
    /\ previously_resolved_actions = <<>>
    /\ Len(potential_actions) = 3
    /\ gen.passes >= 3
    /\ DepsClosed /\ ~HasCycle

\* C2: when a dependency names no loaded unit, or the dependencies hold a
\* cycle, exhausting the resolver raises DependencyError; and the resolver
\* never ends normally with a candidate left out.
C2_UnsatisfiableRaises ==
    /\ (~DepsClosed \/ HasCycle) =>
          /\ GenFinished(gen) => gen.pc = "raised"
          /\ second.called => second.raised
    /\ gen.pc = "done" => Candidates \subseteq Range(yielded)
    /\ (second.called /\ ~second.raised) => Candidates \subseteq Range(second.yielded)

C2_Witness ==
    /\ gen.pc = "raised"
    /\ HasCycle
    /\ DepsClosed
    /\ Len(yielded) >= 1

\* C3: the order does not depend on the order in which the candidates were
\* discovered: a call on any permutation of the candidate list yields the
\* same sequence, and ends the same way.
C3_OrderIndependentOfDiscovery ==
    (GenFinished(gen) /\ second.called) =>
        /\ second.yielded = yielded
        /\ second.raised = (gen.pc = "raised")

C3_Witness ==
    /\ second.called
    /\ second.permuted
    /\ ~second.raised
    /\ Len(second.yielded) = 3
    /\ \E c \in Candidates : dependencies[c] # <<>>

\* The reference algorithm, on the set of candidates.
RECURSIVE AscendingById(_)
AscendingById(S) ==
    IF S = {} THEN <<>>
    ELSE LET m == CHOOSE x \in S : \A y \in S : id[x] <= id[y]
         IN <<m>> \o AscendingById(S \ {m})

\* One linear scan: what it emits, what it keeps, the ids resolved after it.
RECURSIVE RefPass(_, _, _, _)
RefPass(pending, ids, emitted, kept) ==
    IF pending = <<>> THEN [emitted |-> emitted, kept |-> kept, ids |-> ids]
    ELSE LET a == Head(pending)
         IN IF Range(dependencies[a]) \subseteq ids
            THEN RefPass(Tail(pending), ids \cup {id[a]}, Append(emitted, a), kept)
            ELSE RefPass(Tail(pending), ids, emitted, Append(kept, a))

RECURSIVE RefScans(_, _)
RefScans(pending, ids) ==
    LET r == RefPass(pending, ids, <<>>, <<>>)
    IN IF r.emitted = <<>> THEN <<>> ELSE r.emitted \o RefScans(r.kept, r.ids)

RefOrder ==
    LET seeds == AscendingById({c \in Candidates : dependencies[c] = <<>>})
        pending == AscendingById({c \in Candidates : dependencies[c] # <<>>})
    IN previously_resolved_actions \o seeds \o
       RefScans(pending, IdsOf(previously_resolved_actions) \cup IdsOf(seeds))

\* One(2), Two(4, needs One), Three(3, needs One), Four(1, needs Three): the
\* ids in the order of their names.
IsExampleOneTwoThreeFour ==
    /\ NumActions >= 4
    /\ previously_resolved_actions = <<>>
    /\ Candidates = {1, 2, 3, 4}
    /\ dependencies[1] = <<3>> /\ dependencies[2] = <<>>
    /\ dependencies[3] = <<2>> /\ dependencies[4] = <<2>>

PreviouslyResolvedFirst(out, raised) ==
    /\ Len(out) >= Len(previously_resolved_actions)
    /\ SubSeq(out, 1, Len(previously_resolved_actions)) = previously_resolved_actions
    /\ \A c \in Previous : Occurrences(out, c) = 1
    /\ \A c \in Candidates :
          (dependencies[c] # <<>> /\
           Range(dependencies[c]) \subseteq IdsOf(previously_resolved_actions))
             => Occurrences(out, c) = 1
    /\ AfterDependencies(out)
    /\ ~raised => Range(out) = Candidates \cup Previous

C5_PreviouslyResolvedComeFirst ==
    previously_resolved_actions # <<>> =>
        /\ GenFinished(gen) => PreviouslyResolvedFirst(yielded, gen.pc = "raised")
        /\ second.called => PreviouslyResolvedFirst(second.yielded, second.raised)

C5_Witness ==
    /\ gen.pc = "done"
    /\ Len(previously_resolved_actions) = 2
    /\ previously_resolved_actions[1] > previously_resolved_actions[2]
    /\ \E c \in Candidates :
          /\ dependencies[c] # <<>>
          /\ Range(dependencies[c]) \subseteq IdsOf(previously_resolved_actions)

\* ----------------------------------------------- properties of Stage.run
\* The lists of the innermost active Stage.run, or the lists the last run
\* returned.
Lists ==
    IF pc = "running" THEN TopLists
    ELSE IF pc = "returned" THEN result
    ELSE EmptyLists

\* The objects the latest call of run() on the head stage constructed.
ThisRun == {n \in 1..Len(instances) : instances[n].run_call = run_calls}

SuccessIds == {id[instances[n].cls] : n \in Range(Lists.successes)}

\* Some dependency of the object at place n names no unit in successes.
HasFailedDependency(n) ==
    \E d \in Range(dependencies[instances[n].cls]) : d \notin SuccessIds

\* C6: a unit whose dependencies are all (the ids of units) in successes is
\* not skipped: no object in skips has every dependency among the ids of the
\* successes, and none was left without a call of its entry point.
C6_SatisfiedDependenciesAreRun ==
    \A n \in Range(Lists.skips) :
        /\ HasFailedDependency(n)
        /\ instances[n].invoked = 0

\* C7: a unit with at least one dependency that is not in successes is in
\* skips only, with status SKIP, and its entry point is never invoked; for
\* the units [A (ends ERROR), B (depends on A)] the run returns
\* successes=[], failures=[A], skips=[B].
IsExampleAB ==
    /\ stages[1].actions = <<2, 1>>
    /\ stages[2].actions = <<>>
    /\ dependencies[1] = <<>>
    /\ dependencies[2] = <<id[1]>>
    /\ pc = "returned"
    /\ run_calls = 1
    /\ instances[1].status = STATUS_CODE["ERROR"]

C7_FailedDependencySkips ==
    /\ pc \in {"running", "returned"} =>
         \A n \in ThisRun :
             HasFailedDependency(n) =>
                 /\ n \in Range(Lists.skips)
                 /\ n \notin Range(Lists.successes) \cup Range(Lists.failures)
                 /\ instances[n].status = STATUS_CODE["SKIP"]
                 /\ instances[n].invoked = 0
    /\ IsExampleAB =>
         /\ result = [successes |-> <<>>, failures |-> <<1>>, skips |-> <<2>>]
         /\ instances[2].cls = 2
         /\ instances[2].invoked = 0

C7_Witness ==
    /\ IsExampleAB
    /\ result.skips = <<2>>

\* C8: an exception raised by a unit's entry point does not leave
\* Stage.run: the unit is in failures with status ERROR and error id
\* UNEXPECTED_ERROR.
C8_FaultIsAbsorbed ==
    \A n \in 1..Len(instances) :
        instances[n].fault =>
            /\ pc # "raised"
            /\ instances[n].status = STATUS_CODE["ERROR"]
            /\ instances[n].error_id = "UNEXPECTED_ERROR"
            /\ n \in Range(Lists.failures)

\* C9: a second call of run() on a stage raises ActionError and executes no
\* unit again.
C9_SecondRunRaises ==
    run_calls >= 2 =>
        /\ pc = "raised"
        /\ exc = "ActionError"
        /\ \A n \in 1..Len(instances) : instances[n].run_call = 1

\* C10: check_dependencies raises DependencyError whenever a unit of the
\* stage, or of a stage chained after it, has a dependency that no unit of
\* the chain defines or that lies on a cycle; and it constructs and invokes
\* no unit.
Loaded == UNION {Range(stages[k].actions) : k \in 1..Len(stages)}

ChainUnsatisfiable ==
    \/ \E c \in Loaded : \E d \in Range(dependencies[c]) : d \notin {id[b] : b \in Loaded}
    \/ HasCycleIn(Loaded)

C10_CheckDependenciesRaises ==
    check_result # "none" =>
        /\ ChainUnsatisfiable => check_result = "DependencyError"
        /\ run_calls = 0 => instances = <<>> /\ frames = <<>>

C10_Witness ==
    /\ check_result = "DependencyError"
    /\ run_calls = 0
    /\ ChainUnsatisfiable
    /\ ~Exhaust(GenInit(stages[1].actions, <<>>), <<>>, id, dependencies).raised

\* ------------------------------------------ properties of the stage chain
StageOf(c) == CHOOSE k \in 1..Len(stages) : c \in Range(stages[k].actions)

\* Every dependency of a loaded unit names a unit of its own or of an
\* earlier stage, and no unit depends on itself through others.
ChainResolvable ==
    /\ \A c \in Loaded : \A d \in Range(dependencies[c]) :
          \E b \in Loaded : id[b] = d /\ StageOf(b) <= StageOf(c)
    /\ ~HasCycleIn(Loaded)

CrossStageDependency ==
    \E c \in Loaded : \E b \in Loaded : StageOf(b) < StageOf(c) /\ DependsOn(c, b)

\* C11: dependencies are resolved over the combined chain: where a unit of
\* a later stage depends on a unit of an earlier stage (and nothing is
\* unsatisfiable), check_dependencies raises no DependencyError, run() raises
\* none either, and no unit is skipped whose dependencies all succeeded.
C11_CombinedChainResolution ==
    (ChainResolvable /\ CrossStageDependency) =>
        /\ check_result # "DependencyError"
        /\ ~(pc = "raised" /\ exc = "DependencyError")
        /\ \A n \in Range(Lists.skips) : HasFailedDependency(n)

\* ------------------------------------------------ properties of run_actions
\* C12: in run_actions the check of the whole chain comes before any run();
\* if it raises DependencyError the error is logged and the run terminates
\* with no unit constructed and no entry point invoked.
C12_CheckBeforeRun ==
    /\ (run_calls > 0 \/ instances # <<>> \/ frames # <<>>) => check_result = "checked"
    /\ check_result = "DependencyError" =>
          /\ pc = "exited"
          /\ exc = "SystemExit"
          /\ log = <<[level |-> "CRITICAL", text |-> DependencyErrorText]>>
          /\ run_calls = 0
          /\ instances = <<>>
    /\ pc = "running" => Top.gen.pc # "raised"

C12_Witness ==
    /\ check_result = "DependencyError"
    /\ pc = "exited"
    /\ ~Exhaust(GenInit(stages[1].actions, <<>>), <<>>, id, dependencies).raised

\* ------------------------------------------------- results of Stage.run
\* The places in instances of the objects of class c that the latest run made.
InstancesOf(c) == {n \in ThisRun : instances[n].cls = c}

\* In how many of the three lists the object at place n stands, counted
\* with repetition.
ListsHolding(n) ==
    Occurrences(Lists.successes, n) + Occurrences(Lists.failures, n)
        + Occurrences(Lists.skips, n)

\* C13: the engine never aborts the chain because of a unit's outcome: no
\* exception other than the resolver's DependencyError (or the ActionError
\* of a stage that has run) leaves Stage.run, and when run() returns every
\* unit of every stage has one object, in exactly one result list.
C13_ChainNeverAborted ==
    /\ pc = "raised" => exc \in {"DependencyError", "ActionError"}
    /\ pc = "returned" =>
          \A c \in Loaded :
              /\ Cardinality(InstancesOf(c)) = 1
              /\ \A n \in InstancesOf(c) : ListsHolding(n) = 1

\* C14: after Stage.run returns, every object it processed is in exactly
\* one of successes, failures and skips; every object in successes has a
\* status <= WARNING and every object in failures a status > WARNING.
C14_OneListByStatus ==
    pc = "returned" =>
        /\ \A n \in ThisRun : ListsHolding(n) = 1
        /\ \A n \in Range(result.successes) : instances[n].status <= STATUS_CODE["WARNING"]
        /\ \A n \in Range(result.failures) : instances[n].status > STATUS_CODE["WARNING"]

C14_Witness ==
    /\ pc = "returned"
    /\ \E n \in Range(result.successes) : instances[n].status = STATUS_CODE["WARNING"]
    /\ result.failures # <<>>
    /\ result.skips # <<>>

\* C15: SKIP is assigned only by the Stage: after Stage.run every object
\* with status SKIP is in skips and none is in failures, and every object in
\* skips was put there without its entry point having run.
C15_SkipOnlyByStage ==
    pc = "returned" =>
        /\ \A n \in ThisRun :
              instances[n].status = STATUS_CODE["SKIP"] =>
                  /\ n \in Range(result.skips)
                  /\ n \notin Range(result.failures)
        /\ \A n \in Range(result.skips) : instances[n].invoked = 0

IsPrefix(p, q) == Len(p) <= Len(q) /\ SubSeq(q, 1, Len(p)) = p

ListsOf(f) == [successes |-> f.successes, failures |-> f.failures, skips |-> f.skips]

ListNames == {"successes", "failures", "skips"}

\* The objects of list stand in the order of their construction, those of
\* an earlier stage before those of a later one.
InExecutionOrder(list) ==
    \A i, j \in 1..Len(list) :
        i < j => /\ list[i] < list[j]
                 /\ StageOf(instances[list[i]].cls) <= StageOf(instances[list[j]].cls)

\* C16: the three sequences of Stage.run(successes, failures, skips) have
\* the sequences given as prefixes, followed by the results of the stage and
\* of the chained stages in the order of execution; the caller's lists are
\* the same after the call as before.
C16_InputsArePrefixesAndUnchanged ==
    /\ \A k \in 1..Len(frames) : \A name \in ListNames :
          /\ IsPrefix(frames[k].given[name], ListsOf(frames[k])[name])
          /\ InExecutionOrder(ListsOf(frames[k])[name])
          /\ k > 1 => ListsOf(frames[k - 1])[name] = frames[k].given[name]
    /\ pc = "returned" => \A name \in ListNames : InExecutionOrder(result[name])

C16_Witness ==
    /\ Len(frames) = 2
    /\ frames[2].given.successes # <<>>
    /\ Len(frames[2].successes) > Len(frames[2].given.successes)
    /\ Len(frames[2].failures) > Len(frames[2].given.failures)

\* ------------------------------------------------ properties of the results
Chained == result.successes \o result.failures \o result.skips

\* The last object with the id key, in the order successes, failures, skips.
LastWithId(key) ==
    Chained[CHOOSE i \in 1..Len(Chained) :
               /\ id[instances[Chained[i]].cls] = key
               /\ \A j \in (i + 1)..Len(Chained) : id[instances[Chained[j]].cls] # key]

\* C17: the mapping run_actions returns has as keys exactly the ids of the
\* units in successes, failures and skips, each once, each mapped to the
\* status, error_id and message of that unit; of two units with one id, the
\* later in the order successes, failures, skips gives the record.
C17_ResultsByIdLastWins ==
    pc = "done" =>
        /\ DictKeys(formatted_results) = {id[instances[n].cls] : n \in Range(Chained)}
        /\ \A i, j \in 1..Len(formatted_results) :
              formatted_results[i].key = formatted_results[j].key => i = j
        /\ \A key \in DictKeys(formatted_results) :
              DictGet(formatted_results, key) = ResultRecord(instances[LastWithId(key)])

C17_Witness ==
    /\ pc = "done"
    /\ \E m \in Range(result.successes) : \E n \in Range(result.failures) :
          /\ id[instances[m].cls] = id[instances[n].cls]
          /\ DictGet(formatted_results, id[instances[n].cls]).status = instances[n].status

\* C18: find_failed_actions returns exactly the ids whose record has a
\* status strictly greater than WARNING, each once, and the results are as
\* run_actions returned them.
C18_FailedAreAboveWarning ==
    pc = "found" =>
        /\ Range(failed_actions) =
              {key \in DictKeys(formatted_results) :
                  DictGet(formatted_results, key).status \in
                      {STATUS_CODE["SKIP"], STATUS_CODE["OVERRIDABLE"],
                       STATUS_CODE["ERROR"], STATUS_CODE["FATAL"]}}
        /\ NoDuplicates(failed_actions)
        /\ formatted_results = FormatResults(<<>>, Chained, instances, id)

C18_Witness ==
    /\ pc = "found"
    /\ \E key \in DictKeys(formatted_results) :
          DictGet(formatted_results, key).status = STATUS_CODE["WARNING"]
    /\ \E key \in Range(failed_actions) :
          DictGet(formatted_results, key).status = STATUS_CODE["SKIP"]

\* ------------------------------------------------ properties of an Action
\* C19: a unit whose entry point returned normally without setting a status
\* has status SUCCESS afterwards, also when its run() never called the
\* run() of the base class; a status the entry point set stays.
C19_DefaultsToSuccess ==
    \A n \in 1..Len(instances) :
        (instances[n].invoked >= 1 /\ ~instances[n].fault) =>
            /\ instances[n].status # NoneStatus
            /\ instances[n].message = UnitMessage =>
                  instances[n].status \in
                      {STATUS_CODE["WARNING"], STATUS_CODE["SKIP"], STATUS_CODE["ERROR"]}

\* C20: a second invocation of the entry point of one object raises
\* ActionError and leaves status, error_id and message as they were after
\* the first.
C20_SecondInvocationRaises ==
    \A n \in 1..Len(instances) :
        instances[n].invoked >= 2 =>
            /\ exc = "ActionError"
            /\ ResultRecord(instances[n]) = snapshot[1]

\* ------------------------------------------ properties of the DependencyError
\* C21: the DependencyError the resolver raises carries the diagnosis: its
\* unresolved_actions lists the units (or their ids) that could not be
\* resolved, and its resolved_actions the units (or their ids) resolved so far.
C21_ErrorCarriesDiagnosis ==
    gen.pc = "raised" =>
        /\ gen.error.type = "DependencyError"
        /\ gen.error.unresolved_actions \in
              {gen.unresolved_actions,
               [i \in 1..Len(gen.unresolved_actions) |-> id[gen.unresolved_actions[i]]]}
        /\ gen.error.resolved_actions \in
              {gen.resolved_actions,
               [i \in 1..Len(gen.resolved_actions) |-> id[gen.resolved_actions[i]]]}

\* ------------------------------------------ properties of units sharing an id
DuplicateIds == \E a, b \in Loaded : a # b /\ id[a] = id[b]

\* C22: two loaded units that share an id are detected: the check of the
\* dependencies, the resolver or run() fails, so run() never returns with
\* both units ordered and executed, and no mapping is built from them.
C22_DuplicateIdsDetected ==
    DuplicateIds => pc \notin {"returned", "done"}

\* ------------------------------------------------ properties of get_actions
\* The objects bound in the modules (not the packages) of the location.
BoundInModules ==
    UNION {Range(modules[k].objects) : k \in {j \in 1..Len(modules) : ~modules[j].ispkg}}

\* C23: get_actions returns each unit class found at the location exactly
\* once: the list holds neither the class Action nor an object that is no
\* Action class, holds every Action subclass bound in a module, and holds a
\* class once even when several names or several modules are bound to it.
C23_EachClassOnce ==
    pc = "loaded" =>
        /\ Range(actions) = BoundInModules \cap Classes
        /\ NoDuplicates(actions)

\* ------------------------------------------- properties of the severity scale
ScaleNames == <<"SUCCESS", "WARNING", "SKIP", "OVERRIDABLE", "ERROR", "FATAL">>

\* C24: the severity scale is the fixed mapping SUCCESS=0, WARNING=300,
\* SKIP=450, OVERRIDABLE=600, ERROR=900, FATAL=1200, strictly ascending in
\* this order, and it is the same at every step of the engine: every status
\* an object or a result record holds is None or the value the scale gives
\* the name it was set by.
C24_SeverityScale ==
    /\ STATUS_CODE = [SUCCESS |-> 0, WARNING |-> 300, SKIP |-> 450,
                      OVERRIDABLE |-> 600, ERROR |-> 900, FATAL |-> 1200]
    /\ DOMAIN STATUS_CODE = Range(ScaleNames)
    /\ \A i, j \in 1..Len(ScaleNames) :
          i < j => STATUS_CODE[ScaleNames[i]] < STATUS_CODE[ScaleNames[j]]
    /\ \A n \in 1..Len(instances) :
          /\ instances[n].status \in StatusValues \cup {NoneStatus}
          /\ instances[n].error_id = "SKIP" => instances[n].status = 450
          /\ instances[n].error_id = "OUT_OF_DATE" => instances[n].status = 900
          /\ (instances[n].has_run /\ instances[n].message = NoMessage) =>
                instances[n].status = 0
    /\ \A i \in 1..Len(formatted_results) :
          formatted_results[i].value.status \in StatusValues \cup {NoneStatus}

C24_Witness ==
    /\ pc = "done"
    /\ \E i, j, k \in 1..Len(formatted_results) :
          /\ formatted_results[i].value.status = 300
          /\ formatted_results[j].value.status = 450
          /\ formatted_results[k].value.status = 900

\* ------------------------------------------ properties of the order of execution
\* The classes of the objects, in the order of their construction.
Processed == [n \in 1..Len(instances) |-> instances[n].cls]

\* The order of the units of stage k by the reference algorithm: those
\* without dependencies by ascending id, then the scans over the others.
StageOrder(k) ==
    LET units == Range(stages[k].actions)
        seeds == AscendingById({c \in units : dependencies[c] = <<>>})
        pending == AscendingById({c \in units : dependencies[c] # <<>>})
    IN seeds \o RefScans(pending, IdsOf(seeds))

\* The orders of stage k and of the stages chained after it, one after another.
RECURSIVE ChainOrder(_)
ChainOrder(k) ==
    IF k > Len(stages) THEN <<>> ELSE StageOrder(k) \o ChainOrder(k + 1)

\* C25: execution is strictly sequential: the units are processed one at a
\* time, each run or skipped and in its list before the next is taken, in
\* the order the resolver gives within a stage, and the units of a stage all
\* before any unit of the next stage; a run that returns has processed all.
C25_StrictlySequential ==
    /\ IsPrefix(Processed, ChainOrder(1))
    /\ pc \in {"running", "returned"} =>
          \A n \in 1..Len(instances) : ListsHolding(n) = 1
    /\ pc = "running" =>
          LET before == Len(ChainOrder(1)) - Len(ChainOrder(Top.stage))
          IN /\ before <= Len(Processed)
             /\ Len(Processed) <= before + Len(StageOrder(Top.stage))
             /\ Top.gen.out # 0 => Top.gen.out = ChainOrder(1)[Len(Processed) + 1]
    /\ pc \in {"returned", "done"} => Processed = ChainOrder(1)

C25_Witness ==
    /\ pc = "returned"
    /\ Processed = <<2, 1, 3>>
    /\ stages[2].actions = <<3>>
    /\ dependencies[1] = <<2>>

\* ------------------------------------------------- properties of the skips
\* The dependency ids of the object at place n that name no unit in successes.
UnsuccessfulDependencies(n) ==
    SelectSeq(dependencies[instances[n].cls], LAMBDA d : d \notin SuccessIds)

\* C26: a unit skipped by Stage.run has status SKIP (450), error_id "SKIP"
\* and a message that names exactly the dependency ids that were not
\* successful, with "was" for one such id and "were" for more than one.
C26_SkipMessageNamesFailedDependencies ==
    pc \in {"running", "returned"} =>
        \A n \in Range(Lists.skips) :
            /\ instances[n].status = 450
            /\ instances[n].error_id = "SKIP"
            /\ instances[n].message =
                  SkipMessage(UnsuccessfulDependencies(n),
                              IF Len(UnsuccessfulDependencies(n)) > 1 THEN "were" ELSE "was")
            /\ UnsuccessfulDependencies(n) # <<>>

\* The object at place n depends, directly or through other units, on a
\* unit whose object is in failures or in skips.
RECURSIVE DependsOnFailed(_, _)
DependsOnFailed(c, depth) ==
    /\ depth > 0
    /\ \E b \in Loaded :
          /\ DependsOn(c, b)
          /\ \/ \E m \in Range(Lists.failures) \cup Range(Lists.skips) : instances[m].cls = b
             \/ DependsOnFailed(b, depth - 1)

\* C27: skips cascade transitively and only along dependencies: a unit that
\* depends, directly or through a chain of dependencies, on a unit that
\* failed or was skipped is skipped without being invoked, and a unit with
\* no such dependency is executed.
C27_SkipsCascadeOnlyAlongDependencies ==
    pc \in {"running", "returned"} =>
        \A n \in ThisRun :
            IF DependsOnFailed(instances[n].cls, NumActions)
            THEN /\ n \in Range(Lists.skips)
                 /\ instances[n].invoked = 0
            ELSE /\ n \notin Range(Lists.skips)
                 /\ instances[n].invoked = 1

\* ------------------------------------------ properties of the instances
\* C28: in an execution of a stage chain by Stage.run each unit class is
\* instantiated exactly once and the entry point of each object is invoked
\* at most once: no class has two objects, and when run() returns every
\* loaded class has one.
C28_EachClassInstantiatedOnce ==
    /\ \A n \in 1..Len(instances) : instances[n].invoked <= 1
    /\ \A c \in Classes : Cardinality(InstancesOf(c)) <= 1
    /\ pc = "returned" => \A c \in Loaded : Cardinality(InstancesOf(c)) = 1

\* ------------------------------------ properties of a run without a check
\* The resolver, exhausted on the units of stage k alone, raises.
StageRaises(k) ==
    Exhaust(GenInit(stages[k].actions, <<>>), <<>>, id, dependencies).raised

\* C29: when run() is called, without a check before it, on a stage whose
\* units have an unsatisfiable dependency, the DependencyError is raised
\* before any unit of that stage has been instantiated or executed.
C29_DependencyErrorBeforeAnyUnit ==
    (pc = "raised" /\ exc = "DependencyError" /\ check_result = "none") =>
        \A n \in ThisRun : ~StageRaises(StageOf(instances[n].cls))

\* ------------------------------------ properties of the resolver's passes
\* The candidates that start in the pending list.
PendingUnits == {c \in Candidates : dependencies[c] # <<>>}

\* The passes of the reference algorithm: every pass that emits something
\* is followed by another, the pass that emits nothing is the last.
RECURSIVE RefRounds(_, _)
RefRounds(pending, ids) ==
    LET r == RefPass(pending, ids, <<>>, <<>>)
    IN IF r.emitted = <<>> THEN 1 ELSE 1 + RefRounds(r.kept, r.ids)

\* No pass is made when every unit given is pending.
RefPassCount ==
    LET seeds == AscendingById(Candidates \ PendingUnits)
    IN IF Candidates = PendingUnits /\ previously_resolved_actions = <<>> THEN 0
       ELSE RefRounds(AscendingById(PendingUnits),
                      IdsOf(previously_resolved_actions) \cup IdsOf(seeds))

PassesBounded ==
    /\ gen.passes <= Cardinality(PendingUnits) + 1
    /\ Len(gen.unresolved_actions) <= Cardinality(PendingUnits)
    /\ GenFinished(gen) =>
          /\ gen.passes = RefPassCount
          /\ gen.pc = "done" <=> gen.unresolved_actions = <<>>

\* C30: resolve_action_order terminates on every finite input, cyclic and
\* unsatisfiable ones included: every pass of the scan removes a unit from
\* the pending list or is the last one, so there are at most as many passes
\* as pending units, plus one; and the generator reaches its end.
C30_ResolverTerminates ==
    /\ []PassesBounded
    /\ <>GenFinished(gen)

C30_Witness ==
    /\ gen.pc = "raised"
    /\ HasCycle
    /\ gen.passes = 2
    /\ Len(gen.unresolved_actions) = 1

\* ------------------------------------------ properties of the reported status
\* C31: after Stage.run has returned normally, every object in the three
\* lists has a status that is one of the six values of the scale; none is
\* reported with the status None.
C31_NoUnsetStatusReported ==
    pc = "returned" =>
        \A n \in Range(result.successes) \cup Range(result.failures) \cup Range(result.skips) :
            instances[n].status \in StatusValues

\* ------------------------------------ properties of the resolver's arguments
\* C32: resolve_action_order does not modify its arguments: while the
\* generator runs, and after it is exhausted or has raised, the caller's
\* candidate list and previously resolved list hold the same elements in
\* the same order as when the call was made.
C32_ArgumentsUnchanged ==
    /\ potential_actions = given.potential_actions
    /\ previously_resolved_actions = given.previously_resolved_actions

C32_Witness ==
    /\ GenFinished(gen)
    /\ Len(potential_actions) >= 2
    /\ gen.potential_actions # potential_actions
    /\ previously_resolved_actions # <<>>
    /\ Len(gen.resolved_actions) > Len(previously_resolved_actions) + 1
    /\ gen.unresolved_actions = <<>>

\* ------------------------------------------------ properties of set_result
\* The object after the last call of set_result, and before it.
After == instances[1]
Before == set_result_call.before
Passed(name) == name \in DOMAIN set_result_call.kw

SixNames == {"SUCCESS", "WARNING", "SKIP", "OVERRIDABLE", "ERROR", "FATAL"}

PassedBadStatus ==
    /\ Passed("status")
    /\ ~(set_result_call.kw.status.type = "str" /\ set_result_call.kw.status.str \in SixNames)

\* C33: set_result changes only the fields passed to it: a status name sets
\* status to the value of the name on the scale, an error_id or message is
\* stored as it is (None included), a field not passed keeps its value, and
\* a status that is none of the six names raises KeyError and leaves the
\* three fields as they were.
C33_SetResultChangesOnlyWhatIsPassed ==
    set_result_call.calls > 0 =>
        IF PassedBadStatus
        THEN /\ exc = "KeyError"
             /\ After = Before
        ELSE /\ exc = NoException
             /\ After.status = IF Passed("status")
                               THEN STATUS_CODE[set_result_call.kw.status.str]
                               ELSE Before.status
             /\ After.error_id = IF Passed("error_id")
                                 THEN set_result_call.kw.error_id ELSE Before.error_id
             /\ After.message = IF Passed("message")
                                THEN set_result_call.kw.message ELSE Before.message
             /\ After = [Before EXCEPT !.status = After.status,
                                       !.error_id = After.error_id,
                                       !.message = After.message]

C33_Witness ==
    /\ set_result_call.calls = 2
    /\ exc = "KeyError"
    /\ Before.status = 900
    /\ Before.error_id = NoneValue
    /\ Before.message = UnitMessage
    /\ After = Before

====
